---- MODULE Spec2Model ----
(***************************************************************************)
(* Model of streamlit_app.py: the SST dashboard.                           *)
(*                                                                         *)
(*  - module start-up probes for cartopy and sets HAS_CARTOPY;             *)
(*  - main() takes a date from the date picker, calls load_sst_data        *)
(*    through st.cache_data, and renders the grid or shows a notice;       *)
(*  - load_sst_data walks engines_to_try, and inside one try block opens   *)
(*    the remote dataset, checks for 'sst', selects the time slice and the *)
(*    lat/lon box, loads, closes and returns.                              *)
(*                                                                         *)
(* The remote archive is the environment: which days it publishes, its     *)
(* coordinate axes and which cells are missing are chosen in Init; which   *)
(* library call raises is chosen at each step.  Dates are day numbers      *)
(* inside one year file.                                                   *)
(***************************************************************************)
EXTENDS Integers, Sequences, FiniteSets, TLC

\* ---------------------------------------------------------------- bounds
MaxDay == 2
MaxFetches == 2
MaxAxis == 2

\* ------------------------------------------------------ program constants
LatMin == -10
LatMax == 60
LonMin == 60
LonMax == 150

engines_to_try == <<"pydap", "default">>

Dates == 1..MaxDay
NoDate == 0

\* Coordinate values an archive axis may carry, ascending (OISST: lat
\* -89.875..89.875, lon 0.125..359.875): one below the box, both edges of
\* the box, one inside, one above.
LatLine == <<LatMin - 1, LatMin, 25, LatMax, LatMax + 1>>
LonLine == <<LonMin - 1, LonMin, 100, LonMax, LonMax + 1>>

\* The entries of line at the positions in S, in order.
RECURSIVE Pick(_, _)
Pick(line, S) ==
  IF line = <<>> THEN <<>>
  ELSE Pick(SubSeq(line, 1, Len(line) - 1), S)
         \o (IF Len(line) \in S THEN <<line[Len(line)]>> ELSE <<>>)

\* Archive grids: the lat axis takes the positions S of LatLine, the lon
\* axis the positions one place further on (cyclically) of LonLine, so that
\* a grid can lie in the box on one axis and outside on the other.
GridOf(S) ==
  [lat |-> Pick(LatLine, S),
   lon |-> Pick(LonLine, {(i % Len(LonLine)) + 1 : i \in S})]

\* Every grid of up to MaxAxis points per axis, and three grids to run the
\* whole dashboard on: the full lines, a single point in the box, a single
\* point outside it.
Shapes == {S \in SUBSET (1..Len(LatLine)) : Cardinality(S) \in 1..MaxAxis}
BaseShapes == {1..Len(LatLine), {2}, {Len(LatLine)}}

\* The meridian whose cells are missing (land) on a partly missing day.
LandLon == LonLine[3]

SliceKinds == {"masked", "partial"}

Range(s) == {s[i] : i \in DOMAIN s}

\* ------------------------------------------------------------- pure parts

\* ds["sst"] value of one cell of a published day: NaN or a number.
IsMissing(arch, d, la, lo) ==
  \/ arch.kind[d] = "masked"
  \/ arch.kind[d] = "partial" /\ lo = LandLon

\* pandas label slice on an ascending index: both ends inclusive,
\* located by position (searchsorted left / right).
SearchLeft(axis, v) == 1 + Cardinality({i \in DOMAIN axis : axis[i] < v})
SearchRightExclusive(axis, v) == Cardinality({i \in DOMAIN axis : axis[i] < v})
SearchRight(axis, v) == Cardinality({i \in DOMAIN axis : axis[i] <= v})
LabelSlice(axis, lo, hi) == SubSeq(axis, SearchLeft(axis, lo), SearchRight(axis, hi))

\* .sel(time=np.datetime64(selected_date)) with no method=: exact label
\* match, KeyError (NoDate here) when the label is absent.
SelTimeNearest(times, d) ==
  IF times = {} THEN NoDate
  ELSE CHOOSE t \in times :
         \A u \in times :
           (IF t >= d THEN t - d ELSE d - t) < (IF u >= d THEN u - d ELSE d - u)
           \/ ((IF t >= d THEN t - d ELSE d - t) = (IF u >= d THEN u - d ELSE d - u)
               /\ t <= u)
SelTime(times, d) == IF d \in times THEN d ELSE NoDate

\* .squeeze(): dimensions of length one are dropped, coordinates are kept.
Squeeze(lat, lon) ==
  (IF Len(lat) # 1 THEN {"lat"} ELSE {}) \cup (IF Len(lon) # 1 THEN {"lon"} ELSE {})

\* The value None and the absent cache entry, in the shape of a grid.
Blank(k) ==
  [kind |-> k, date |-> NoDate, lat |-> <<>>, lon |-> <<>>,
   dims |-> {}, valid |-> {}, loaded |-> FALSE]
None == Blank("None")
Miss == Blank("miss")

\* ds["sst"].sel(time=..., lat=slice(-10, 60), lon=slice(60, 150)).squeeze()
\* for a time label t the archive has: a lazy DataArray.
SelBox(arch, t) ==
  LET lat == LabelSlice(arch.lat, LatMin, LatMax)
      lon == LabelSlice(arch.lon, LonMin, LonMax)
  IN  [kind |-> "DataArray", date |-> t, lat |-> lat, lon |-> lon,
       dims |-> Squeeze(lat, lon),
       valid |-> {c \in Range(lat) \X Range(lon) : ~IsMissing(arch, t, c[1], c[2])},
       loaded |-> FALSE]

\* sst_data.isnull().all()
IsNullAll(g) == \A c \in Range(g.lat) \X Range(g.lon) : c \notin g.valid

\* ------------------------------------------------------ the try block

\* "except Exception as e" (line 82): every exception kind a step of the
\* try block can raise is caught.
CatchesOnlyOpenError(kind) == kind = "open"
Catches(kind) == kind \in {"open", "novar", "notime", "load", "close"}

NoErr == [eng |-> 0, kind |-> "none"]

\* "last_err = e" (line 83).
KeepFirstErr(prev, e) == IF prev = NoErr THEN e ELSE prev
RecordErr(prev, e) == e

\* "continue" (line 84) inside "for eng in engines_to_try" (line 67): any
\* caught exception moves on to the next engine while one is left.
ContinuesAfterOpenErrorOnly(i, kind) == i < Len(engines_to_try) /\ kind = "open"
Continues(i, kind) == i < Len(engines_to_try)

\* Statement order of the try body (lines 69-81).
StepAfterCloseBeforeLoad(p) ==
  CASE p = "open" -> "check"
    [] p = "check" -> "sel"
    [] p = "sel" -> "close"
    [] p = "close" -> "load"
    [] p = "load" -> "return"
StepAfter(p) ==
  CASE p = "open" -> "check"
    [] p = "check" -> "sel"
    [] p = "sel" -> "load"
    [] p = "load" -> "close"
    [] p = "close" -> "return"

\* ------------------------------------------------------------- the cache

\* @st.cache_data (line 52): the return value is stored under the argument,
\* None included; no ttl, no max_entries.
CachePutSkipsNone(c, d, v) == IF v = None THEN c ELSE [c EXCEPT ![d] = v]
CachePut(c, d, v) == [c EXCEPT ![d] = v]

\* ----------------------------------------------------------------- main

\* "sst_data is not None and not sst_data.isnull().all()" (line 187).
ShouldRenderAnyGrid(g) == g # None
ShouldRender(g) == g # None /\ ~IsNullAll(g)

\* "if HAS_CARTOPY: ... else: ..." (lines 190-194).
PickRendererAlwaysCartopy(flag) == "create_map_with_cartopy"
PickRenderer(flag) ==
  IF flag THEN "create_map_with_cartopy" ELSE "create_simple_latlon_plot"

\* ---------------------------------------------------------------- state
VARIABLES
  HAS_CARTOPY,    \* module global (lines 20-26)
  archive,        \* the remote archive: [times, kind, lat, lon]
  pc,             \* position of the script
  selected_date,  \* main: value of the date picker
  cache,          \* st.cache_data store of load_sst_data, by date
  handles,        \* remote datasets opened and not closed: <<date, engine index>>
  fetchCount,     \* per date, how often the body of load_sst_data ran
  eng,            \* load_sst_data: index of the loop variable in engines_to_try
  tried,          \* load_sst_data: engines passed to xr.open_dataset in this call
  last_err,       \* load_sst_data: last_err
  ds,             \* load_sst_data: ds (engine index of the dataset object, 0 unbound)
  asia_sst,       \* load_sst_data: asia_sst
  data,           \* load_sst_data: data
  sst_data,       \* main: sst_data
  error_shown,    \* the error st.error reported (line 86)
  notice,         \* st.info of line 205 shown
  renderer,       \* renderer called in this run of main
  figure          \* st.pyplot called in this run of main

vars == <<HAS_CARTOPY, archive, pc, selected_date, cache, handles, fetchCount,
          eng, tried, last_err, ds, asia_sst, data, sst_data, error_shown,
          notice, renderer, figure>>

Unset == Blank("unset")

\* Archives: every choice of published days and of their missing cells on
\* the base grids, and every grid with all days published, partly missing.
Archives ==
  {[times |-> DOMAIN k, kind |-> k, lat |-> GridOf(S).lat, lon |-> GridOf(S).lon] :
     k \in UNION {[T -> SliceKinds] : T \in SUBSET Dates}, S \in BaseShapes}
  \cup
  {[times |-> Dates, kind |-> [d \in Dates |-> "partial"],
    lat |-> GridOf(S).lat, lon |-> GridOf(S).lon] : S \in Shapes}

Init ==
  /\ HAS_CARTOPY = FALSE
  /\ archive \in Archives
  /\ pc = "startup"
  /\ selected_date = NoDate
  /\ cache = [d \in Dates |-> Miss]
  /\ handles = {}
  /\ fetchCount = [d \in Dates |-> 0]
  /\ eng = 1
  /\ tried = <<>>
  /\ last_err = NoErr
  /\ ds = 0
  /\ asia_sst = Unset
  /\ data = Unset
  /\ sst_data = Unset
  /\ error_shown = NoErr
  /\ notice = FALSE
  /\ renderer = "none"
  /\ figure = FALSE

\* Lines 20-26: the import probe.
ImportCartopy ==
  /\ pc = "startup"
  /\ \E installed \in BOOLEAN : HAS_CARTOPY' = installed
  /\ pc' = "idle"
  /\ UNCHANGED <<archive, selected_date, cache, handles, fetchCount, eng, tried,
                 last_err, ds, asia_sst, data, sst_data, error_shown, notice,
                 renderer, figure>>

\* Lines 176-185 with the cache_data wrapper of line 52: a date is picked,
\* the script runs again; a stored outcome is returned, else the body of
\* load_sst_data starts (lines 59-65).
SelectDate(d) ==
  /\ pc = "idle"
  /\ selected_date' = d
  /\ IF cache[d] # Miss
       THEN /\ sst_data' = cache[d]
            /\ pc' = "decide"
            /\ UNCHANGED fetchCount
       ELSE /\ fetchCount[d] < MaxFetches
            /\ sst_data' = Unset
            /\ pc' = "open"
            /\ fetchCount' = [fetchCount EXCEPT ![d] = @ + 1]
  /\ UNCHANGED <<HAS_CARTOPY, archive, cache, handles, eng, tried, last_err, ds,
                 asia_sst, data, error_shown, notice, renderer, figure>>

\* Lines 82-95: the handler of the try block, then either the next
\* iteration or the failure exit of the function.
Raise(kind) ==
  IF ~Catches(kind)
    THEN /\ pc' = "crashed"
         /\ UNCHANGED <<eng, last_err, sst_data, cache, error_shown>>
    ELSE /\ last_err' = RecordErr(last_err, [eng |-> eng, kind |-> kind])
         /\ IF Continues(eng, kind)
              THEN /\ eng' = eng + 1
                   /\ pc' = "open"
                   /\ UNCHANGED <<sst_data, cache, error_shown>>
              ELSE /\ error_shown' = last_err'
                   /\ sst_data' = None
                   /\ cache' = CachePut(cache, selected_date, None)
                   /\ pc' = "decide"
                   /\ UNCHANGED eng

Proceed(p) ==
  /\ pc' = StepAfter(p)
  /\ UNCHANGED <<eng, last_err, sst_data, cache, error_shown>>

\* Line 69: ds = xr.open_dataset(data_url, engine=eng)
Open ==
  /\ pc = "open"
  /\ tried' = Append(tried, engines_to_try[eng])
  /\ \E ok \in BOOLEAN :
       IF ok
         THEN /\ ds' = eng
              /\ handles' = handles \cup {<<selected_date, eng>>}
              /\ Proceed("open")
         ELSE /\ Raise("open")
              /\ UNCHANGED <<ds, handles>>
  /\ UNCHANGED <<HAS_CARTOPY, archive, selected_date, fetchCount, asia_sst, data,
                 notice, renderer, figure>>

\* Lines 70-71: if "sst" not in ds: raise KeyError
CheckSst ==
  /\ pc = "check"
  /\ \E has_sst \in BOOLEAN :
       IF has_sst THEN Proceed("check") ELSE Raise("novar")
  /\ UNCHANGED <<HAS_CARTOPY, archive, selected_date, handles, fetchCount, tried,
                 ds, asia_sst, data, notice, renderer, figure>>

\* Lines 73-77: the selection; KeyError when the archive has no such day.
Sel ==
  /\ pc = "sel"
  /\ LET t == SelTime(archive.times, selected_date)
     IN  IF t # NoDate
           THEN /\ asia_sst' = SelBox(archive, t)
                /\ Proceed("sel")
           ELSE /\ Raise("notime")
                /\ UNCHANGED asia_sst
  /\ UNCHANGED <<HAS_CARTOPY, archive, selected_date, handles, fetchCount, tried,
                 ds, data, notice, renderer, figure>>

\* Line 79: data = asia_sst.load()
Load ==
  /\ pc = "load"
  /\ \E ok \in BOOLEAN :
       IF ok
         THEN /\ data' = [asia_sst EXCEPT !.loaded = TRUE]
              /\ Proceed("load")
         ELSE /\ Raise("load")
              /\ UNCHANGED data
  /\ UNCHANGED <<HAS_CARTOPY, archive, selected_date, handles, fetchCount, tried,
                 ds, asia_sst, notice, renderer, figure>>

\* Line 80: ds.close(); when it raises, the session may or may not be gone.
Close ==
  /\ pc = "close"
  /\ \E ok \in BOOLEAN :
       IF ok
         THEN /\ handles' = handles \ {<<selected_date, ds>>}
              /\ Proceed("close")
         ELSE /\ Raise("close")
              /\ \E gone \in BOOLEAN :
                   handles' = IF gone THEN handles \ {<<selected_date, ds>>} ELSE handles
  /\ UNCHANGED <<HAS_CARTOPY, archive, selected_date, fetchCount, tried, ds,
                 asia_sst, data, notice, renderer, figure>>

\* Line 81: return data (stored by the cache_data wrapper, handed to main).
Return ==
  /\ pc = "return"
  /\ sst_data' = data
  /\ cache' = CachePut(cache, selected_date, data)
  /\ pc' = "decide"
  /\ UNCHANGED <<HAS_CARTOPY, archive, selected_date, handles, fetchCount, eng,
                 tried, last_err, ds, asia_sst, data, error_shown, notice, renderer,
                 figure>>

\* Lines 187-205: render and display, or the notice.
Decide ==
  /\ pc = "decide"
  /\ IF ShouldRender(sst_data)
       THEN /\ renderer' = PickRenderer(HAS_CARTOPY)
            /\ figure' = TRUE
            /\ UNCHANGED notice
       ELSE /\ notice' = TRUE
            /\ UNCHANGED <<renderer, figure>>
  /\ pc' = "shown"
  /\ UNCHANGED <<HAS_CARTOPY, archive, selected_date, cache, handles, fetchCount,
                 eng, tried, last_err, ds, asia_sst, data, sst_data, error_shown>>

\* Line 208 returns: the run of the script is over.  The next interaction
\* runs the script from the top, with new locals and an empty page; the
\* module global, the cache_data store and sessions left open outlive it.
EndRun ==
  /\ pc = "shown"
  /\ pc' = "idle"
  /\ selected_date' = NoDate
  /\ notice' = FALSE /\ renderer' = "none" /\ figure' = FALSE
  /\ error_shown' = NoErr
  /\ eng' = 1 /\ tried' = <<>> /\ last_err' = NoErr
  /\ ds' = 0 /\ asia_sst' = Unset /\ data' = Unset /\ sst_data' = Unset
  /\ UNCHANGED <<HAS_CARTOPY, archive, cache, handles, fetchCount>>

Next ==
  \/ ImportCartopy
  \/ \E d \in Dates : SelectDate(d)
  \/ Open
  \/ CheckSst
  \/ Sel
  \/ Load
  \/ Close
  \/ Return
  \/ Decide
  \/ EndRun

Spec == Init /\ [][Next]_vars

\* ---------------------------------------------------------- properties

Handle == <<selected_date, ds>>
CallOver == pc \in {"decide", "shown"}
BodyRan == tried # <<>>
InBox(v, lo, hi) == lo <= v /\ v <= hi

\* C1: whatever fails in an attempt (open, missing 'sst', no time slice for
\* the date, load, close), load_sst_data hands main a grid or None; no
\* exception leaves the function.
C1_NoFaultEscapes ==
  /\ pc # "crashed"
  /\ CallOver => (sst_data = None \/ sst_data.kind = "DataArray")
  /\ (CallOver /\ BodyRan /\ last_err.eng = Len(engines_to_try)) => sst_data = None

C1_Witness ==
  /\ pc = "decide"
  /\ selected_date \notin archive.times
  /\ last_err = [eng |-> Len(engines_to_try), kind |-> "notime"]
  /\ sst_data = None

\* C2: in one call the engines are tried in the order of engines_to_try,
\* each at most once; an engine after the first is tried only after the
\* attempt before it failed; a grid comes from the last engine tried, with
\* no later attempt; the failure reports the error of the last attempt.
C2_EngineOrder ==
  /\ Len(tried) <= Len(engines_to_try)
  /\ tried = SubSeq(engines_to_try, 1, Len(tried))
  /\ pc \in {"check", "sel", "load", "close", "return"} => Len(tried) = eng
  /\ pc = "open" => Len(tried) = eng - 1
  /\ (pc \in {"open", "check", "sel", "load", "close", "return"} /\ eng > 1)
       => last_err.eng = eng - 1
  /\ (CallOver /\ BodyRan /\ sst_data # None) => last_err.eng = Len(tried) - 1
  /\ (CallOver /\ BodyRan /\ sst_data = None)
       => /\ tried = engines_to_try
          /\ last_err.eng = Len(tried)
          /\ error_shown = last_err

C2_Witness ==
  /\ pc = "decide"
  /\ tried = engines_to_try
  /\ sst_data = None
  /\ error_shown = [eng |-> 2, kind |-> "open"]

\* C3: for each date the body of load_sst_data runs at most once in a
\* session; a later selection of the date gets the stored outcome, grid or
\* failure, and opens nothing.
C3_FetchedOncePerDate ==
  /\ \A d \in Dates : fetchCount[d] <= 1
  /\ \A d \in Dates : cache[d] # Miss => fetchCount[d] = 1
  /\ CallOver => sst_data = cache[selected_date]
  /\ (CallOver /\ ~BodyRan) => (fetchCount[selected_date] = 1 /\ ds = 0)

C3_Witness ==
  /\ pc = "decide"
  /\ ~BodyRan
  /\ sst_data = None
  /\ fetchCount[selected_date] = 1

\* C4: every dataset opened in a call is closed when the call has returned.
C4_AllHandlesClosed == (pc \in {"idle", "decide", "shown"}) => handles = {}

\* C5, as claimed: a later engine is tried only when the open of the
\* earlier one failed; a failure after a successful open ends the call.
C5_NoFallbackAfterOpen ==
  (eng > 1 /\ last_err.eng = eng - 1) => last_err.kind = "open"

\* C5, amended: a failure after a successful open counts like a failed
\* open: the next engine of the list is tried when there is one and its
\* grid is returned when it succeeds; None is returned only when the
\* attempt with the last engine has failed.
C5_FallbackAfterAnyFailure ==
  /\ (last_err # NoErr /\ last_err.eng < Len(engines_to_try))
       => (eng = last_err.eng + 1 /\ sst_data # None)
  /\ (CallOver /\ BodyRan /\ sst_data = None)
       => (last_err.eng = Len(engines_to_try) /\ tried = engines_to_try)
  /\ (CallOver /\ BodyRan /\ sst_data # None /\ last_err # NoErr)
       => (sst_data.kind = "DataArray" /\ Len(tried) = last_err.eng + 1)

C5_Witness ==
  /\ pc = "decide"
  /\ last_err = [eng |-> 1, kind |-> "load"]
  /\ tried = engines_to_try
  /\ sst_data.kind = "DataArray"

\* C6: after a failure (None) or a grid without a non-missing value main
\* shows the notice, calls no renderer and displays no figure; a renderer
\* is called only for a grid with a non-missing value.
C6_NoticeInsteadOfRender ==
  /\ renderer # "none" => (sst_data.kind = "DataArray" /\ sst_data.valid # {})
  /\ figure => renderer # "none"
  /\ (pc = "shown" /\ (sst_data = None \/ sst_data.valid = {}))
       => (notice /\ renderer = "none" /\ ~figure)

C6_Witness ==
  /\ pc = "shown"
  /\ sst_data.kind = "DataArray"
  /\ sst_data.lat # <<>> /\ sst_data.lon # <<>>
  /\ sst_data.valid = {}
  /\ notice /\ renderer = "none" /\ ~figure

\* C7: a grid returned for date d is the archive's slice of d itself; when
\* the archive has no slice of d the outcome is None, never the slice of
\* another day.
C7_ExactDate ==
  /\ sst_data.kind = "DataArray"
       => (sst_data.date = selected_date /\ selected_date \in archive.times)
  /\ \A d \in Dates :
       cache[d].kind = "DataArray" => (cache[d].date = d /\ d \in archive.times)
  /\ (CallOver /\ selected_date \notin archive.times) => sst_data = None

C7_Witness ==
  /\ pc = "decide"
  /\ BodyRan
  /\ selected_date \notin archive.times
  /\ archive.times # {}
  /\ sst_data = None

\* C8: the latitudes of a returned grid are exactly the archive latitudes
\* in [-10, 60] and its longitudes exactly the archive longitudes in
\* [60, 150], both ends included.
C8_BoxSubset ==
  sst_data.kind = "DataArray" =>
    /\ Range(sst_data.lat) = {v \in Range(archive.lat) : InBox(v, LatMin, LatMax)}
    /\ Range(sst_data.lon) = {v \in Range(archive.lon) : InBox(v, LonMin, LonMax)}
    /\ Len(sst_data.lat) = Cardinality(Range(sst_data.lat))
    /\ Len(sst_data.lon) = Cardinality(Range(sst_data.lon))

C8_Witness ==
  /\ pc = "decide"
  /\ sst_data.kind = "DataArray"
  /\ LatMax \in Range(sst_data.lat)
  /\ LonMin \in Range(sst_data.lon)
  /\ (LatMax + 1) \in Range(archive.lat)
  /\ (LonMin - 1) \in Range(archive.lon)

\* C9: in an attempt the dataset is read (variable check, selection, load)
\* only while it is open, the grid is loaded before the close, and the
\* grid is returned loaded, after the close.
C9_LoadCloseReturn ==
  /\ pc \in {"check", "sel", "load"} => Handle \in handles
  /\ pc = "close" => (data.loaded /\ data = [asia_sst EXCEPT !.loaded = TRUE])
  /\ pc = "return" => (data.loaded /\ Handle \notin handles)
  /\ sst_data.kind = "DataArray" => sst_data.loaded

C9_Witness ==
  /\ pc = "return"
  /\ data.kind = "DataArray"
  /\ data.loaded
  /\ Handle \notin handles

====
